---- MODULE Spec2Model ----
(***************************************************************************)
(* Model of src/main.py: the POST /query handler query_kubernetes, the     *)
(* four cluster collaborators get_pods_info, get_deployments_info,         *)
(* get_pod_logs and get_nodes_info, and the chat-completion call.          *)
(*                                                                         *)
(* Text is a sequence of pieces (strings); the text it stands for is the   *)
(* concatenation of the pieces.  A query is a sequence of one-character    *)
(* pieces, so that lower(), the substring test and the regular expression  *)
(* work character by character as they do in the code.                     *)
(* A Python value that may be None is None (the empty tuple) or Some(v).   *)
(*                                                                         *)
(* query_kubernetes is a coroutine: it runs on the event loop without      *)
(* interruption up to the await of line 265, where it is suspended until   *)
(* the provider call settles.  The variables below pc hold the request the *)
(* event loop is running or ran last; `waiting` holds the other requests   *)
(* that are suspended at the await, each as the record of these variables. *)
(***************************************************************************)
EXTENDS Integers, Sequences, FiniteSets, TLC

VARIABLES
    rid,                \* which of the requests in flight the event loop runs
    waiting,            \* the requests suspended at the await of line 265
    pc,                 \* position of the request inside query_kubernetes
    query,              \* request.query
    match,              \* result of re.search: None or Some(group 1)
    logs,               \* value returned by get_pod_logs
    pod_data, pod_count,
    deployment_data, deployment_count,
    node_data, node_count,
    openai_message,     \* the two messages built for the provider
    openai_response,    \* what chat.completions.create returned
    response,           \* the QueryResponse returned, None before
    failure,            \* the HTTPException raised, None before
    log,                \* records the request wrote through the logging module
    stdout,             \* lines the request wrote with print()
    calls,              \* number of calls of each function, per request
    call_args,          \* arguments each function was called with, None before
    api,                \* raw result of each collaborator call of the request
    path                \* the positions the request has been through

vars == <<rid, waiting, pc, query, match, logs, pod_data, pod_count, deployment_data,
          deployment_count, node_data, node_count, openai_message,
          openai_response, response, failure, log, stdout, calls,
          call_args, api, path>>

-----------------------------------------------------------------------------
(* Bounds *)

\* items of an API list when the collection is taken alone
MaxItems == 2
\* items of an API list when requests are served concurrently
MaxListed == 1
\* vocabulary chunks of a query
MaxChunks == 4
\* requests in flight at a time
MaxInFlight == 2

-----------------------------------------------------------------------------
(* Python values *)

None == <<>>
Some(v) == <<v>>
Val(o) == o[1]

SeqsUpTo(S, n) == UNION {[1..k -> S] : k \in 0..n}

\* the concatenation of a sequence of sequences
RECURSIVE FlattenFrom(_, _)
FlattenFrom(ss, k) ==
    IF k > Len(ss) THEN <<>> ELSE ss[k] \o FlattenFrom(ss, k + 1)
Flatten(ss) == FlattenFrom(ss, 1)

\* An exception: its class and the text str(e) gives.
Exc(type, msg) == [type |-> type, msg |-> msg]
Str(e) == e.msg

-----------------------------------------------------------------------------
(* Characters and words *)
(* A character is a one-character string.  A character that a string of    *)
(* this notation cannot hold (a control character without an escape, a     *)
(* character outside ASCII) is written as its code point, "U+000B".        *)

SP == " "
TAB == "\t"
LF == "\n"

\* the characters \s matches in a str pattern, the ones str.isspace() holds
Whitespace ==
    {SP, TAB, LF, "\r", "\f", "U+000B", "U+001C", "U+001D", "U+001E",
     "U+001F", "U+0085", "U+00A0", "U+1680", "U+2000", "U+2001", "U+2002",
     "U+2003", "U+2004", "U+2005", "U+2006", "U+2007", "U+2008", "U+2009",
     "U+200A", "U+2028", "U+2029", "U+202F", "U+205F", "U+3000"}

UpperLetters ==
    <<"A", "B", "C", "D", "E", "F", "G", "H", "I", "J", "K", "L", "M",
      "N", "O", "P", "Q", "R", "S", "T", "U", "V", "W", "X", "Y", "Z">>
LowerLetters ==
    <<"a", "b", "c", "d", "e", "f", "g", "h", "i", "j", "k", "l", "m",
      "n", "o", "p", "q", "r", "s", "t", "u", "v", "w", "x", "y", "z">>
Digits == {"0", "1", "2", "3", "4", "5", "6", "7", "8", "9"}

UpperCase == {UpperLetters[k] : k \in 1..26}
LowerCase == {LowerLetters[k] : k \in 1..26}

\* the characters [a-zA-Z0-9-] matches under re.IGNORECASE: the class, and
\* the four characters outside ASCII whose case folding is i, s or k
\* (capital I with dot, dotless i, long s, the Kelvin sign)
TokenChars ==
    LowerCase \cup UpperCase \cup Digits \cup {"-"}
        \cup {"U+0130", "U+0131", "U+017F", "U+212A"}

\* str.lower() on one character of the model's text, which holds the
\* ASCII characters, the whitespace characters above and the four
\* characters of TokenChars outside ASCII: one character, or two for the
\* capital I with dot.  No other character lowers to an ASCII character.
LowerChar(c) ==
    IF c \in UpperCase
    THEN <<LowerLetters[CHOOSE k \in 1..26 : UpperLetters[k] = c]>>
    ELSE IF c = "U+212A" THEN <<"k">>
    ELSE IF c = "U+0130" THEN <<"i", "U+0307">>
    ELSE <<c>>

\* str.lower()
lower(s) == Flatten([i \in 1..Len(s) |-> LowerChar(s[i])])

\* needle in haystack (Python's substring test)
Contains(haystack, needle) ==
    \E i \in 1..(Len(haystack) - Len(needle) + 1) :
        SubSeq(haystack, i, i + Len(needle) - 1) = needle

\* str.strip(): drop leading and trailing whitespace
RECURSIVE lstrip(_)
lstrip(s) ==
    IF s # <<>> /\ Head(s) \in Whitespace THEN lstrip(Tail(s)) ELSE s
RECURSIVE rstrip(_)
rstrip(s) ==
    IF s # <<>> /\ s[Len(s)] \in Whitespace
    THEN rstrip(SubSeq(s, 1, Len(s) - 1)) ELSE s
strip(s) == rstrip(lstrip(s))

W_log == <<"l", "o", "g">>
W_for == <<"f", "o", "r">>
W_the == <<"t", "h", "e">>
W_pod == <<"p", "o", "d">>

-----------------------------------------------------------------------------
(* re.search(r"log\s+(?:for\s+)?(?:the\s+pod\s+)?([a-zA-Z0-9-]+)",         *)
(*           request.query, re.IGNORECASE)                                 *)
(* A backtracking matcher: each pattern element maps a position to the     *)
(* positions where it can end, in the order the engine tries them.         *)

\* a letter of the pattern under re.IGNORECASE: the letters l, o, g, f, r,
\* t, h, e, p and d match their two ASCII cases and nothing else
SameLetter(c, letter) ==
    c = letter \/ (c \in UpperCase /\ LowerChar(c) = <<letter>>)

\* a literal word, compared without regard to case
LitEnds(s, i, w) ==
    IF /\ i + Len(w) - 1 <= Len(s)
       /\ \A k \in 1..Len(w) : SameLetter(s[i + k - 1], w[k])
    THEN <<i + Len(w)>> ELSE <<>>

\* length of the run of characters of class C that starts at i
RECURSIVE RunLen(_, _, _)
RunLen(s, i, C) ==
    IF i <= Len(s) /\ s[i] \in C THEN 1 + RunLen(s, i + 1, C) ELSE 0

\* a greedy C+ : the longest run first, then shorter ones
PlusEnds(s, i, C) ==
    LET n == RunLen(s, i, C) IN [k \in 1..n |-> i + n - k + 1]

\* the positions of s, the one past its end included
Positions(s) == 1..(Len(s) + 1)

\* \s+ from every position
SpacesFrom(s) == [e \in Positions(s) |-> PlusEnds(s, e, Whitespace)]

\* sequencing: continue with `next` from every end, keeping the order
Then(ends, next) == Flatten([k \in 1..Len(ends) |-> next[ends[k]]])

\* a greedy optional group: with the group first, then without
Opt(withGroup, i) == withGroup \o <<i>>

\* (?:for\s+)
ForGroup(s, i) == Then(LitEnds(s, i, W_for), SpacesFrom(s))

\* (?:the\s+pod\s+)
TheGroup(s, i) ==
    Then(Then(Then(LitEnds(s, i, W_the), SpacesFrom(s)),
              [e \in Positions(s) |-> LitEnds(s, e, W_pod)]),
         SpacesFrom(s))

\* faulty variant: a lazy group, ([a-zA-Z0-9-]+?), shortest span first
TokenSpans_Lazy(s, i) ==
    LET n == RunLen(s, i, TokenChars)
    IN  [k \in 1..n |-> <<i, i + k - 1>>]

\* ([a-zA-Z0-9-]+) : the spans <<first, last>> of group 1, longest first
TokenSpans(s, i) ==
    LET ends == PlusEnds(s, i, TokenChars)
    IN  [k \in 1..Len(ends) |-> <<i, ends[k] - 1>>]

\* faulty variant: log\s* in place of log\s+
MatchAt_NoSpace(s, i) ==
    LET afterLog == Then(LitEnds(s, i, W_log),
                         [e \in Positions(s) |->
                             Opt(PlusEnds(s, e, Whitespace), e)])
        afterFor == Then(afterLog,
                         [e \in Positions(s) |-> Opt(ForGroup(s, e), e)])
        afterThe == Then(afterFor,
                         [e \in Positions(s) |-> Opt(TheGroup(s, e), e)])
    IN  Then(afterThe, [e \in Positions(s) |->
                           LET ends == PlusEnds(s, e, TokenChars)
                           IN  [k \in 1..Len(ends) |-> <<e, ends[k] - 1>>]])

\* every way the whole pattern matches starting at i, in trial order
MatchAt(s, i) ==
    LET afterLog == Then(LitEnds(s, i, W_log), SpacesFrom(s))
        afterFor == Then(afterLog,
                         [e \in Positions(s) |-> Opt(ForGroup(s, e), e)])
        afterThe == Then(afterFor,
                         [e \in Positions(s) |-> Opt(TheGroup(s, e), e)])
    IN  Then(afterThe, [e \in Positions(s) |-> TokenSpans(s, e)])

\* the scan of re.search: try each start position from i on, left to
\* right, and stop at the first position where the pattern matches
RECURSIVE SearchFrom(_, _)
SearchFrom(s, i) ==
    IF i > Len(s) THEN None
    ELSE LET found == MatchAt(s, i)
         IN  IF found # <<>> THEN Some(Head(found))
             ELSE SearchFrom(s, i + 1)

\* re.search: None, or Some(match.group(1)) of the first match
re_search(s) ==
    LET m == SearchFrom(s, 1)
    IN  IF m = None THEN None ELSE Some(SubSeq(s, Val(m)[1], Val(m)[2]))

\* faulty variant: the test without lower()
IsLogRequest_CaseSensitive(q) == Contains(q, W_log)

\* line 184: "log" in request.query.lower()
IsLogRequest(q) == Contains(lower(q), W_log)

-----------------------------------------------------------------------------
(* The cluster API: what each call can return or raise *)

ApiError == Exc("ApiException", "(403) Forbidden")
NoAttribute(a) ==
    Exc("AttributeError", "'NoneType' object has no attribute '" \o a \o "'")

\* a call of the API client either raises or returns its value
Raised(e) == [raised |-> TRUE, exc |-> e]
Returned(v) == [raised |-> FALSE, value |-> v]

\* V1Pod objects: scheduled, one without metadata, and not yet scheduled
PodItems ==
    << [metadata |-> Some([name |-> "web-7f8c", namespace |-> "default"]),
        status |-> [phase |-> "Running"],
        spec |-> [node_name |-> Some("node-1")]],
       [metadata |-> None,
        status |-> [phase |-> "Unknown"],
        spec |-> [node_name |-> None]],
       [metadata |-> Some([name |-> "db-0", namespace |-> "default"]),
        status |-> [phase |-> "Pending"],
        spec |-> [node_name |-> None]] >>

\* V1Deployment objects: a complete one, one without spec, and one that
\* reports no conditions, selector or strategy
DeploymentItems ==
    << [metadata |-> [name |-> "web"],
        spec |-> Some([replicas |-> Some(3),
                       selector |-> Some([match_labels |->
                                            Some(<< <<"app", "web">> >>)]),
                       strategy |-> Some([type |-> "RollingUpdate"])]),
        status |-> [available_replicas |-> Some(2),
                    ready_replicas |-> None,
                    conditions |-> Some(<<[type |-> "Available"],
                                          [type |-> "Progressing"]>>)]],
       [metadata |-> [name |-> "broken"],
        spec |-> None,
        status |-> [available_replicas |-> None,
                    ready_replicas |-> None,
                    conditions |-> None]],
       [metadata |-> [name |-> "db"],
        spec |-> Some([replicas |-> Some(1),
                       selector |-> None,
                       strategy |-> None]),
        status |-> [available_replicas |-> None,
                    ready_replicas |-> None,
                    conditions |-> None]] >>

\* V1Node objects: a ready one, one without metadata, and one that reports
\* no conditions or addresses yet
NodeItems ==
    << [metadata |-> Some([name |-> "node-1",
                           labels |-> Some(<< <<"role", "worker">> >>)]),
        status |-> [conditions |-> Some(<<[type |-> "MemoryPressure"],
                                          [type |-> "Ready"]>>),
                    addresses |-> Some(<<[address |-> "10.0.0.1"],
                                         [address |-> "node-1"]>>)],
        spec |-> [unschedulable |-> Some(TRUE)]],
       [metadata |-> None,
        status |-> [conditions |-> None, addresses |-> None],
        spec |-> [unschedulable |-> None]],
       [metadata |-> Some([name |-> "node-2", labels |-> None]),
        status |-> [conditions |-> None, addresses |-> Some(<<>>)],
        spec |-> [unschedulable |-> None]] >>

\* what a list call can do: raise, or return up to n items of the first
\* n + 1 of the kinds above
Kinds(Items, n) ==
    {Items[k] : k \in 1..(IF n + 1 < Len(Items) THEN n + 1 ELSE Len(Items))}
ListResults(Items, n) ==
    {Raised(ApiError)}
        \cup {Returned(items) : items \in SeqsUpTo(Kinds(Items, n), n)}

LogTexts == {"line1\nline2", ""}
ReadLogResults == {Raised(ApiError)} \cup {Returned(t) : t \in LogTexts}

\* the truth value Python gives an optional list
Truthy(o) == o # None /\ Val(o) # <<>>

\* A for loop that builds one record per item and appends it to a list:
\* `built` holds, per item, the record or the exception its construction
\* raises.  The loop stops at the first exception.
BuildList(built) ==
    LET bad == {i \in 1..Len(built) : built[i].raised}
    IN  IF bad = {}
        THEN Returned([i \in 1..Len(built) |-> built[i].value])
        ELSE Raised(built[CHOOSE i \in bad : \A j \in bad : i <= j].exc)

\* a logging record
LogRecord(level, msg) == [level |-> level, msg |-> msg]

\* what a collaborator hands back: its return value and what it wrote
Outcome(value, logged, printed) ==
    [value |-> value, logged |-> logged, printed |-> printed]

-----------------------------------------------------------------------------
(* get_pods_info, lines 73-97 *)

PodInfo(pod) ==
    IF pod.metadata = None THEN Raised(NoAttribute("name"))
    ELSE Returned([name |-> Val(pod.metadata).name,
                   namespace |-> Val(pod.metadata).namespace,
                   status |-> pod.status.phase,
                   node |-> pod.spec.node_name])

get_pods_info(result) ==
    LET built == IF result.raised THEN result
                 ELSE BuildList([i \in 1..Len(result.value) |->
                                    PodInfo(result.value[i])])
    IN  IF built.raised
        THEN Outcome(<<<<>>, 0>>, <<>>,
                     <<<<"Error fetching pod information: ", Str(built.exc)>>>>)
        ELSE Outcome(<<built.value, Len(built.value)>>, <<>>, <<>>)

(* get_deployments_info, lines 101-125 *)

DeploymentInfo(d) ==
    IF d.spec = None THEN Raised(NoAttribute("replicas"))
    ELSE LET spec == Val(d.spec) IN
         Returned([name |-> d.metadata.name,
                   replicas |-> spec.replicas,
                   available_replicas |-> d.status.available_replicas,
                   ready_replicas |-> d.status.ready_replicas,
                   status |-> IF Truthy(d.status.conditions)
                              THEN LET c == Val(d.status.conditions)
                                   IN  c[Len(c)].type
                              ELSE "Unknown",
                   selector |-> IF spec.selector # None
                                THEN Val(spec.selector).match_labels
                                ELSE Some(<<>>),
                   strategy |-> IF spec.strategy # None
                                THEN Val(spec.strategy).type
                                ELSE "Unknown"])

\* faulty variant: a failure part-way returns the records built so far
get_deployments_info_partial(result) ==
    IF result.raised
    THEN Outcome(<<<<>>, 0>>,
                 <<LogRecord("ERROR",
                     <<"Error fetching deployment information: ",
                       Str(result.exc)>>)>>,
                 <<>>)
    ELSE LET built == [i \in 1..Len(result.value) |->
                          DeploymentInfo(result.value[i])]
             bad == {i \in 1..Len(built) : built[i].raised}
             n == IF bad = {} THEN Len(built)
                  ELSE (CHOOSE i \in bad : \A j \in bad : i <= j) - 1
         IN  Outcome(<<[i \in 1..n |-> built[i].value], n>>, <<>>, <<>>)

get_deployments_info(result) ==
    LET built == IF result.raised THEN result
                 ELSE BuildList([i \in 1..Len(result.value) |->
                                    DeploymentInfo(result.value[i])])
    IN  IF built.raised
        THEN Outcome(<<<<>>, 0>>,
                     <<LogRecord("ERROR",
                         <<"Error fetching deployment information: ",
                           Str(built.exc)>>)>>,
                     <<>>)
        ELSE Outcome(<<built.value, Len(built.value)>>, <<>>, <<>>)

(* get_pod_logs, lines 129-140 *)

\* faulty variant: the except clause returns the error text
get_pod_logs_text(pod_name, result) ==
    IF result.raised
    THEN Outcome(Str(result.exc),
                 <<LogRecord("ERROR",
                     <<"Error fetching logs for pod ">> \o pod_name
                        \o <<": ", Str(result.exc)>>)>>,
                 <<>>)
    ELSE Outcome(result.value, <<>>, <<>>)

get_pod_logs(pod_name, result) ==
    IF result.raised
    THEN Outcome("",
                 <<LogRecord("ERROR",
                     <<"Error fetching logs for pod ">> \o pod_name
                        \o <<": ", Str(result.exc)>>)>>,
                 <<>>)
    ELSE Outcome(result.value, <<>>, <<>>)

(* get_nodes_info, lines 144-174 *)

NodeInfo(node) ==
    IF node.metadata = None THEN Raised(NoAttribute("name"))
    ELSE Returned([name |-> Val(node.metadata).name,
                   status |-> IF Truthy(node.status.conditions)
                              THEN LET c == Val(node.status.conditions)
                                   IN  c[Len(c)].type
                              ELSE "Unknown",
                   labels |-> Val(node.metadata).labels,
                   node_ip |-> IF Truthy(node.status.addresses)
                               THEN Val(node.status.addresses)[1].address
                               ELSE "Unknown",
                   unschedulable |-> IF "unschedulable" \in DOMAIN node.spec
                                     THEN node.spec.unschedulable
                                     ELSE Some(FALSE)])

\* faulty variant: the except clause returns the count taken from the API
get_nodes_info_stale(result) ==
    IF result.raised
    THEN Outcome(<<<<>>, 0>>,
                 <<LogRecord("ERROR",
                     <<"Error fetching nodes information: ",
                       Str(result.exc)>>)>>,
                 <<>>)
    ELSE LET node_count_ == Len(result.value)
             counted == LogRecord("INFO",
                          <<"Total number of nodes in the cluster: ",
                            ToString(node_count_)>>)
             built == BuildList([i \in 1..Len(result.value) |->
                                    NodeInfo(result.value[i])])
         IN  IF built.raised
             THEN Outcome(<<<<>>, node_count_>>,
                          <<counted,
                            LogRecord("ERROR",
                              <<"Error fetching nodes information: ",
                                Str(built.exc)>>)>>,
                          <<>>)
             ELSE Outcome(<<built.value, node_count_>>, <<counted>>, <<>>)

get_nodes_info(result) ==
    IF result.raised
    THEN Outcome(<<<<>>, 0>>,
                 <<LogRecord("ERROR",
                     <<"Error fetching nodes information: ",
                       Str(result.exc)>>)>>,
                 <<>>)
    ELSE LET node_count_ == Len(result.value)
             counted == LogRecord("INFO",
                          <<"Total number of nodes in the cluster: ",
                            ToString(node_count_)>>)
             built == BuildList([i \in 1..Len(result.value) |->
                                    NodeInfo(result.value[i])])
         IN  IF built.raised
             THEN Outcome(<<<<>>, 0>>,
                          <<counted,
                            LogRecord("ERROR",
                              <<"Error fetching nodes information: ",
                                Str(built.exc)>>)>>,
                          <<>>)
             ELSE Outcome(<<built.value, node_count_>>, <<counted>>, <<>>)

-----------------------------------------------------------------------------
(* json.dumps(context, indent=2), lines 221-228 and 248 *)

RECURSIVE Indent(_)
Indent(n) == IF n = 0 THEN "" ELSE " " \o Indent(n - 1)

JsonString(s) == "\"" \o s \o "\""
JsonBool(b) == IF b THEN "true" ELSE "false"
JsonOptString(o) == IF o = None THEN "null" ELSE JsonString(Val(o))
JsonOptInt(o) == IF o = None THEN "null" ELSE ToString(Val(o))
JsonOptBool(o) == IF o = None THEN "null" ELSE JsonBool(Val(o))

\* fields: a sequence of <<key, pieces of the value>>; n: the indentation
\* of the line the object starts on
JsonObject(fields, n) ==
    IF fields = <<>> THEN <<"{}">>
    ELSE <<"{">>
         \o Flatten([i \in 1..Len(fields) |->
                <<"\n" \o Indent(n + 2), JsonString(fields[i][1]) \o ": ">>
                \o fields[i][2]
                \o (IF i < Len(fields) THEN <<",">> ELSE <<>>)])
         \o <<"\n" \o Indent(n), "}">>

JsonArray(elems, n) ==
    IF elems = <<>> THEN <<"[]">>
    ELSE <<"[">>
         \o Flatten([i \in 1..Len(elems) |->
                <<"\n" \o Indent(n + 2)>> \o elems[i]
                \o (IF i < Len(elems) THEN <<",">> ELSE <<>>)])
         \o <<"\n" \o Indent(n), "]">>

\* a dict of strings, kept as its <<key, value>> pairs in insertion order
JsonDict(pairs, n) ==
    JsonObject([i \in 1..Len(pairs) |->
                   <<pairs[i][1], <<JsonString(pairs[i][2])>>>>], n)
JsonOptDict(o, n) == IF o = None THEN <<"null">> ELSE JsonDict(Val(o), n)

JsonPod(p, n) ==
    JsonObject(<< <<"name", <<JsonString(p.name)>>>>,
                  <<"namespace", <<JsonString(p.namespace)>>>>,
                  <<"status", <<JsonString(p.status)>>>>,
                  <<"node", <<JsonOptString(p.node)>>>> >>, n)

JsonDeployment(d, n) ==
    JsonObject(<< <<"name", <<JsonString(d.name)>>>>,
                  <<"replicas", <<JsonOptInt(d.replicas)>>>>,
                  <<"available_replicas", <<JsonOptInt(d.available_replicas)>>>>,
                  <<"ready_replicas", <<JsonOptInt(d.ready_replicas)>>>>,
                  <<"status", <<JsonString(d.status)>>>>,
                  <<"selector", JsonOptDict(d.selector, n + 2)>>,
                  <<"strategy", <<JsonString(d.strategy)>>>> >>, n)

JsonNode(x, n) ==
    JsonObject(<< <<"name", <<JsonString(x.name)>>>>,
                  <<"status", <<JsonString(x.status)>>>>,
                  <<"labels", JsonOptDict(x.labels, n + 2)>>,
                  <<"node_ip", <<JsonString(x.node_ip)>>>>,
                  <<"unschedulable", <<JsonOptBool(x.unschedulable)>>>> >>, n)

\* lines 221-228
Context(pods, deployments, nodes, pc_, dc_, nc_) ==
    [pods |-> pods, deployments |-> deployments, nodes |-> nodes,
     pod_count |-> pc_, deployment_count |-> dc_, node_count |-> nc_]

json_dumps(context) ==
    JsonObject(
      << <<"pods", JsonArray([i \in 1..Len(context.pods) |->
                                 JsonPod(context.pods[i], 4)], 2)>>,
         <<"deployments",
           JsonArray([i \in 1..Len(context.deployments) |->
                         JsonDeployment(context.deployments[i], 4)], 2)>>,
         <<"nodes", JsonArray([i \in 1..Len(context.nodes) |->
                                  JsonNode(context.nodes[i], 4)], 2)>>,
         <<"pod_count", <<ToString(context.pod_count)>>>>,
         <<"deployment_count", <<ToString(context.deployment_count)>>>>,
         <<"node_count", <<ToString(context.node_count)>>>> >>, 0)

\* lines 233-250
SystemPrompt ==
    "You are a Kubernetes assistant. "
    \o "Answer in clear, natural sentences. "
    \o "Base all responses ONLY on the provided JSON cluster data. "
    \o "If the user asks for counts, state them in a sentence "
    \o "(e.g., 'There are 5 pods running in the default namespace.'). "
    \o "If they ask for names, list them naturally in one sentence. "
    \o "If they ask about deployments or nodes, summarize them clearly."

\* faulty variant: the question is lower-cased before it is sent
BuildMessages_Lowered(context, q) ==
    << [role |-> "system", content |-> <<SystemPrompt>>],
       [role |-> "user",
        content |-> <<"Cluster data:\n">> \o json_dumps(context)
                    \o <<"\n\nQuestion: ">> \o lower(q)] >>

BuildMessages(context, q) ==
    << [role |-> "system", content |-> <<SystemPrompt>>],
       [role |-> "user",
        content |-> <<"Cluster data:\n">> \o json_dumps(context)
                    \o <<"\n\nQuestion: ">> \o q] >>

-----------------------------------------------------------------------------
(* The completion provider, lines 265-271 *)

ProviderError == Exc("APIConnectionError", "Connection error.")
Completion(choices) == [choices |-> choices]
Choice(content) == [message |-> [content |-> content]]
ProviderResults ==
    { Raised(ProviderError),
      Returned(Completion(<<Choice(Some("There are 2 pods."))>>)),
      Returned(Completion(<<Choice(None)>>)),
      Returned(Completion(<<>>)) }

\* openai_response.choices[0].message.content
FirstContent(completion) ==
    IF completion.choices = <<>>
    THEN Raised(Exc("IndexError", "list index out of range"))
    ELSE Returned(completion.choices[1].message.content)

\* str(e) of the ValidationError pydantic 2 raises for answer=None
ValidationText ==
    "1 validation error for QueryResponse\nanswer\n"
    \o "  Input should be a valid string "
    \o "[type=string_type, input_value=None, input_type=NoneType]\n"
    \o "    For further information visit "
    \o "https://errors.pydantic.dev/2.13/v/string_type"

\* QueryResponse(query=..., answer=...): pydantic rejects an answer
\* that is not a string
QueryResponse(q, answer) ==
    IF answer = None
    THEN Raised(Exc("ValidationError", ValidationText))
    ELSE Returned([query |-> q, answer |-> Val(answer)])

\* faulty variant: a fixed detail in place of str(e)
HTTPException_Generic(e) ==
    [status_code |-> 500, detail |-> "Internal Server Error"]

\* lines 275-278
HTTPException(e) == [status_code |-> 500, detail |-> Str(e)]
ErrorRecord(e) == LogRecord("ERROR", <<"An error occurred: ", Str(e)>>)

NotFoundAnswer == "Pod name not found in the query."

-----------------------------------------------------------------------------
(* Requests *)

\* log for the pod web-7f8c in the default namespace
Q_PodLog ==
    <<"l", "o", "g", SP, "f", "o", "r", SP, "t", "h", "e", SP, "p", "o",
      "d", SP, "w", "e", "b", "-", "7", "f", "8", "c", SP, "i", "n", SP,
      "t", "h", "e", SP, "d", "e", "f", "a", "u", "l", "t", SP, "n", "a",
      "m", "e", "s", "p", "a", "c", "e">>

\* How many pods are running?
Q_HowMany ==
    <<"H", "o", "w", SP, "m", "a", "n", "y", SP, "p", "o", "d", "s", SP, "a",
      "r", "e", SP, "r", "u", "n", "n", "i", "n", "g", "?">>

\* show logs for web-7f8c
Q_ShowLogs ==
    <<"s", "h", "o", "w", SP, "l", "o", "g", "s", SP, "f", "o", "r", SP,
      "w", "e", "b", "-", "7", "f", "8", "c">>

\* LOG<TAB>db-0 
Q_Upper ==
    <<"L", "O", "G", TAB, "d", "b", "-", "0", SP>>

Queries == {Q_PodLog, Q_HowMany, Q_ShowLogs, Q_Upper}

\* A bounded vocabulary: a query is up to MaxChunks of these, concatenated.
Vocabulary ==
    { W_log, <<"L", "O", "G", LF>>, <<SP>>, <<TAB>>, W_for \o <<SP>>,
      W_the \o <<SP>> \o W_pod \o <<SP>>, W_the \o <<SP>>,
      <<"s">>, <<"w", "-", "7">>, <<"N", "x", "_", "1">> }

WideQueries == {Flatten(cs) : cs \in SeqsUpTo(Vocabulary, MaxChunks)}

-----------------------------------------------------------------------------
(* query_kubernetes, lines 179-278, one action per step *)

Functions == {"get_pods_info", "get_deployments_info", "get_nodes_info",
              "get_pod_logs", "create"}

NoCalls == [f \in Functions |-> 0]
Called(f) == [calls EXCEPT ![f] = @ + 1]
NoApi == [f \in Functions |-> None]
NoArgs == [f \in Functions |-> None]
CalledWith(f, args) == [call_args EXCEPT ![f] = Some(args)]

ReceivedRecord(q) == LogRecord("INFO", <<"Received query: ">> \o q)

Locals == <<match, logs, pod_data, pod_count, deployment_data,
            deployment_count, node_data, node_count, openai_message,
            openai_response>>
Written == <<log, stdout>>
Outputs == <<response, failure>>
Loop == <<rid, waiting>>

\* the request the event loop is running, as a record
View ==
    [rid |-> rid, pc |-> pc, query |-> query, match |-> match, logs |-> logs,
     pod_data |-> pod_data, pod_count |-> pod_count,
     deployment_data |-> deployment_data,
     deployment_count |-> deployment_count,
     node_data |-> node_data, node_count |-> node_count,
     openai_message |-> openai_message,
     openai_response |-> openai_response,
     response |-> response, failure |-> failure,
     log |-> log, stdout |-> stdout, calls |-> calls,
     call_args |-> call_args, api |-> api, path |-> path]

\* the positions at which a request has left the handler
Ended == {"Done", "Cancelled"}

\* the event loop runs no handler: it can start a request or resume one
EventLoopFree == pc \in {"Idle", "Awaiting"} \cup Ended

\* the requests suspended at the await
Suspended == waiting \cup (IF pc = "Awaiting" THEN {View} ELSE {})

Slots == 1..MaxInFlight
FreeSlots == Slots \ {f.rid : f \in Suspended}
LowestFree == CHOOSE r \in FreeSlots : \A x \in FreeSlots : r <= x

\* the process is up and no request has arrived
Init ==
    /\ rid = 1 /\ waiting = {}
    /\ pc = "Idle"
    /\ query = <<>>
    /\ match = None /\ logs = None
    /\ pod_data = None /\ pod_count = None
    /\ deployment_data = None /\ deployment_count = None
    /\ node_data = None /\ node_count = None
    /\ openai_message = None /\ openai_response = None
    /\ response = None /\ failure = None
    /\ log = <<>> /\ stdout = <<>>
    /\ calls = NoCalls /\ call_args = NoArgs /\ api = NoApi
    /\ path = <<>>

\* line 181: a request arrives while the event loop is free and its
\* handler starts; its locals are unbound.  A request suspended at the
\* await stays suspended.
Receive(q) ==
    /\ EventLoopFree
    /\ FreeSlots # {}
    /\ rid' = LowestFree
    /\ waiting' = Suspended
    /\ pc' = "Received"
    /\ query' = q
    /\ match' = None /\ logs' = None
    /\ pod_data' = None /\ pod_count' = None
    /\ deployment_data' = None /\ deployment_count' = None
    /\ node_data' = None /\ node_count' = None
    /\ openai_message' = None /\ openai_response' = None
    /\ response' = None /\ failure' = None
    /\ log' = <<ReceivedRecord(q)>> /\ stdout' = <<>>
    /\ calls' = NoCalls /\ call_args' = NoArgs /\ api' = NoApi
    /\ path' = <<"Received">>

Goto(p) == pc' = p /\ path' = Append(path, p)

\* line 184
Classify ==
    /\ pc = "Received"
    /\ Goto(IF IsLogRequest(query) THEN "ClassifiedLog" ELSE "ClassifiedGeneral")
    /\ UNCHANGED <<Loop, query, Locals, Written, Outputs, calls, call_args, api>>

\* line 187
Extract ==
    /\ pc = "ClassifiedLog"
    /\ match' = re_search(query)
    /\ Goto("Extracted")
    /\ UNCHANGED <<Loop, query, logs, pod_data, pod_count, deployment_data,
                   deployment_count, node_data, node_count, openai_message,
                   openai_response, Written, Outputs, calls, call_args, api>>

\* lines 188-190
FetchLogs ==
    /\ pc = "Extracted"
    /\ match # None
    /\ \E result \in ReadLogResults :
         LET pod_name == strip(Val(match))
             out == get_pod_logs(pod_name, result)
         IN  /\ logs' = Some(out.value)
             /\ log' = log \o out.logged
             /\ call_args' = CalledWith("get_pod_logs",
                                         [pod_name |-> pod_name,
                                          namespace |-> "default"])
             /\ api' = [api EXCEPT !["get_pod_logs"] = Some(result)]
    /\ calls' = Called("get_pod_logs")
    /\ Goto("Fetched")
    /\ UNCHANGED <<Loop, query, match, pod_data, pod_count, deployment_data,
                   deployment_count, node_data, node_count, openai_message,
                   openai_response, stdout, Outputs>>

\* line 191
ReturnLogs ==
    /\ pc = "Fetched"
    /\ response' = Some(QueryResponse(query, logs).value)
    /\ Goto("Done")
    /\ UNCHANGED <<Loop, query, Locals, Written, failure, calls, call_args, api>>

\* lines 192-193
ReturnNotFound ==
    /\ pc = "Extracted"
    /\ match = None
    /\ response' = Some(QueryResponse(query, Some(NotFoundAnswer)).value)
    /\ Goto("Done")
    /\ UNCHANGED <<Loop, query, Locals, Written, failure, calls, call_args, api>>

\* line 209; the API list holds up to n items
CollectPods(n) ==
    /\ pc = "ClassifiedGeneral"
    /\ \E result \in ListResults(PodItems, n) :
         LET out == get_pods_info(result)
         IN  /\ pod_data' = Some(out.value[1])
             /\ pod_count' = Some(out.value[2])
             /\ log' = log \o out.logged
             /\ stdout' = stdout \o out.printed
             /\ api' = [api EXCEPT !["get_pods_info"] = Some(result)]
    /\ calls' = Called("get_pods_info")
    /\ call_args' = CalledWith("get_pods_info", [namespace |-> "default"])
    /\ Goto("PodsCollected")
    /\ UNCHANGED <<Loop, query, match, logs, deployment_data, deployment_count,
                   node_data, node_count, openai_message, openai_response,
                   Outputs>>

\* line 210
CollectDeployments(n) ==
    /\ pc = "PodsCollected"
    /\ \E result \in ListResults(DeploymentItems, n) :
         LET out == get_deployments_info(result)
         IN  /\ deployment_data' = Some(out.value[1])
             /\ deployment_count' = Some(out.value[2])
             /\ log' = log \o out.logged
             /\ stdout' = stdout \o out.printed
             /\ api' = [api EXCEPT !["get_deployments_info"] = Some(result)]
    /\ calls' = Called("get_deployments_info")
    /\ call_args' = CalledWith("get_deployments_info", [namespace |-> "default"])
    /\ Goto("DeploymentsCollected")
    /\ UNCHANGED <<Loop, query, match, logs, pod_data, pod_count, node_data,
                   node_count, openai_message, openai_response, Outputs>>

\* line 211
CollectNodes(n) ==
    /\ pc = "DeploymentsCollected"
    /\ \E result \in ListResults(NodeItems, n) :
         LET out == get_nodes_info(result)
         IN  /\ node_data' = Some(out.value[1])
             /\ node_count' = Some(out.value[2])
             /\ log' = log \o out.logged
             /\ stdout' = stdout \o out.printed
             /\ api' = [api EXCEPT !["get_nodes_info"] = Some(result)]
    /\ calls' = Called("get_nodes_info")
    /\ call_args' = CalledWith("get_nodes_info", <<>>)
    /\ Goto("Collected")
    /\ UNCHANGED <<Loop, query, match, logs, pod_data, pod_count,
                   deployment_data, deployment_count, openai_message,
                   openai_response, Outputs>>

\* lines 221-250
BuildPrompt ==
    /\ pc = "Collected"
    /\ openai_message' =
         Some(BuildMessages(Context(Val(pod_data), Val(deployment_data),
                                    Val(node_data), Val(pod_count),
                                    Val(deployment_count), Val(node_count)),
                            query))
    /\ Goto("Prompted")
    /\ UNCHANGED <<Loop, query, match, logs, pod_data, pod_count,
                   deployment_data, deployment_count, node_data, node_count,
                   openai_response, Written, Outputs, calls, call_args, api>>

\* lines 265-268, up to the await: the call is issued and the handler is
\* suspended; openai_response is not bound yet
CallProvider ==
    /\ pc = "Prompted"
    /\ calls' = Called("create")
    /\ call_args' = CalledWith("create", [messages |-> Val(openai_message),
                                          model |-> "gpt-4o"])
    /\ Goto("Awaiting")
    /\ UNCHANGED <<Loop, query, Locals, Written, Outputs, api>>

\* the locals of the suspended request f that resuming it leaves alone
Restore(f) ==
    /\ rid' = f.rid
    /\ query' = f.query
    /\ match' = f.match /\ logs' = f.logs
    /\ pod_data' = f.pod_data /\ pod_count' = f.pod_count
    /\ deployment_data' = f.deployment_data
    /\ deployment_count' = f.deployment_count
    /\ node_data' = f.node_data /\ node_count' = f.node_count
    /\ openai_message' = f.openai_message
    /\ stdout' = f.stdout
    /\ calls' = f.calls /\ call_args' = f.call_args

\* faulty variant: the except clause also answers
Fail_Both(f, e) ==
    /\ log' = Append(f.log, ErrorRecord(e))
    /\ failure' = Some(HTTPException(e))
    /\ response' = Some([query |-> f.query, answer |-> Str(e)])
    /\ pc' = "Done" /\ path' = Append(f.path, "Done")

\* lines 275-278: the except clause of the handler of request f
Fail(f, e) ==
    /\ log' = Append(f.log, ErrorRecord(e))
    /\ failure' = Some(HTTPException(e))
    /\ response' = f.response
    /\ pc' = "Done" /\ path' = Append(f.path, "Done")

\* lines 265-268, from the await on: the call of a suspended request
\* settles and the event loop resumes its handler, which binds
\* openai_response or enters the except clause
ProviderSettles ==
    /\ EventLoopFree
    /\ \E f \in Suspended : \E result \in ProviderResults :
         /\ waiting' = Suspended \ {f}
         /\ Restore(f)
         /\ api' = [f.api EXCEPT !["create"] = Some(result)]
         /\ IF result.raised
            THEN /\ Fail(f, result.exc)
                 /\ openai_response' = f.openai_response
            ELSE /\ openai_response' = Some(result.value)
                 /\ pc' = "Completed" /\ path' = Append(f.path, "Completed")
                 /\ log' = f.log
                 /\ response' = f.response /\ failure' = f.failure

\* the task of a suspended request is cancelled: asyncio.CancelledError
\* is raised at the await; it is not an Exception, so the except clause
\* of line 275 does not run and the handler is left with no outcome
CancelRequest ==
    /\ EventLoopFree
    /\ \E f \in Suspended :
         /\ waiting' = Suspended \ {f}
         /\ Restore(f)
         /\ api' = f.api
         /\ openai_response' = f.openai_response
         /\ pc' = "Cancelled" /\ path' = Append(f.path, "Cancelled")
         /\ log' = f.log
         /\ response' = f.response /\ failure' = f.failure

ReceivedInfo == LogRecord("INFO", <<"OpenAI response received successfully.">>)

\* lines 271-273
ReturnAnswer ==
    /\ pc = "Completed"
    /\ LET enhanced_answer == FirstContent(Val(openai_response))
       IN  IF enhanced_answer.raised
           THEN Fail(View, enhanced_answer.exc)
           ELSE LET r == QueryResponse(query, enhanced_answer.value)
                IN  IF r.raised
                    THEN /\ log' = log \o <<ReceivedInfo, ErrorRecord(r.exc)>>
                         /\ failure' = Some(HTTPException(r.exc))
                         /\ response' = response
                         /\ Goto("Done")
                    ELSE /\ log' = Append(log, ReceivedInfo)
                         /\ response' = Some(r.value)
                         /\ failure' = failure
                         /\ Goto("Done")
    /\ UNCHANGED <<Loop, query, Locals, stdout, calls, call_args, api>>

\* the steps of a running handler
Step ==
    \/ Classify
    \/ Extract
    \/ FetchLogs
    \/ ReturnLogs
    \/ ReturnNotFound
    \/ CollectPods(MaxListed)
    \/ CollectDeployments(MaxListed)
    \/ CollectNodes(MaxListed)
    \/ BuildPrompt
    \/ CallProvider
    \/ ReturnAnswer

Next ==
    \/ \E q \in Queries : Receive(q)
    \/ Step
    \/ ProviderSettles
    \/ CancelRequest

Spec == Init /\ [][Next]_vars

\* A running handler keeps running: between the start of a request and
\* the await, and after it, query_kubernetes is straight-line code, and at
\* each of these positions one step of Step is possible.
RequestPositions ==
    {"Received", "ClassifiedLog", "ClassifiedGeneral", "Extracted", "Fetched",
     "PodsCollected", "DeploymentsCollected", "Collected", "Prompted",
     "Awaiting", "Completed", "Done"}

Advance ==
    /\ ~EventLoopFree
    /\ pc' \in RequestPositions \ {pc}

\* request r is suspended at the await
Awaits(r) == \E f \in Suspended : f.rid = r

\* The provider call of a suspended request settles or the request is
\* cancelled, and the event loop, which runs the handlers that are ready
\* in turn, then resumes it.
Resumed(r) ==
    /\ Awaits(r)
    /\ rid' = r
    /\ pc' \in {"Completed", "Done", "Cancelled"}

FairSpec ==
    /\ Spec
    /\ WF_pc(Advance)
    /\ \A r \in Slots : WF_<<rid, pc>>(Resumed(r))

-----------------------------------------------------------------------------
(* The extraction alone, over every query of the bounded vocabulary *)

InitExtract ==
    /\ rid = 1 /\ waiting = {}
    /\ pc = "Received"
    /\ query \in WideQueries
    /\ match = None /\ logs = None
    /\ pod_data = None /\ pod_count = None
    /\ deployment_data = None /\ deployment_count = None
    /\ node_data = None /\ node_count = None
    /\ openai_message = None /\ openai_response = None
    /\ response = None /\ failure = None
    /\ log = <<ReceivedRecord(query)>> /\ stdout = <<>>
    /\ calls = NoCalls /\ call_args = NoArgs /\ api = NoApi
    /\ path = <<"Received">>

NextExtract ==
    \/ Classify
    \/ Extract
    \/ FetchLogs
    \/ ReturnNotFound

SpecExtract == InitExtract /\ [][NextExtract]_vars

-----------------------------------------------------------------------------
(* The collection alone: one general question, API lists of up to MaxItems *)
(* items, from classification to the provider call                         *)

InitCollect ==
    /\ rid = 1 /\ waiting = {}
    /\ pc = "ClassifiedGeneral"
    /\ query = Q_HowMany
    /\ match = None /\ logs = None
    /\ pod_data = None /\ pod_count = None
    /\ deployment_data = None /\ deployment_count = None
    /\ node_data = None /\ node_count = None
    /\ openai_message = None /\ openai_response = None
    /\ response = None /\ failure = None
    /\ log = <<ReceivedRecord(query)>> /\ stdout = <<>>
    /\ calls = NoCalls /\ call_args = NoArgs /\ api = NoApi
    /\ path = <<"Received", "ClassifiedGeneral">>

NextCollect ==
    \/ CollectPods(MaxItems)
    \/ CollectDeployments(MaxItems)
    \/ CollectNodes(MaxItems)
    \/ BuildPrompt
    \/ CallProvider

SpecCollect == InitCollect /\ [][NextCollect]_vars

-----------------------------------------------------------------------------
(* Properties *)

Started == pc # "Idle"
Finished == pc = "Done"
GeneralPath == {"ClassifiedGeneral", "PodsCollected", "DeploymentsCollected",
                "Collected", "Prompted", "Awaiting", "Completed"}
\* the provider call of the request has been issued
Issued == {"Awaiting", "Completed", "Cancelled"}

\* the query holds "log" in some letter case
MentionsLog(q) ==
    \E i \in 1..(Len(q) - 2) :
        /\ q[i] \in {"l", "L"}
        /\ q[i + 1] \in {"o", "O"}
        /\ q[i + 2] \in {"g", "G"}

\* A reference reading of the pattern  log (for )?(the pod )?<token>,
\* stated as a set of parses in place of a search.  The separator written
\* as a blank in the pattern is read either as exactly one space ("space")
\* or as a run of one or more whitespace characters ("run").
Gap(reading, s, a, b) ==
    IF reading = "space"
    THEN b = a + 1 /\ a <= Len(s) /\ s[a] = SP
    ELSE a < b /\ b <= Len(s) + 1 /\ \A k \in a..(b - 1) : s[k] \in Whitespace

Capital(letter) ==
    UpperLetters[CHOOSE k \in 1..26 : LowerLetters[k] = letter]

WordAt(s, a, w) ==
    /\ a + Len(w) - 1 <= Len(s)
    /\ \A k \in 1..Len(w) : s[a + k - 1] \in {w[k], Capital(w[k])}

\* the positions a separator that starts at a can end at
AfterGap(reading, s, a) ==
    {b \in (a + 1)..(Len(s) + 1) : Gap(reading, s, a, b)}

\* the positions reached from the positions P by word w and a separator
AfterWord(reading, s, P, w) ==
    UNION {AfterGap(reading, s, p + Len(w)) : p \in {x \in P : WordAt(s, x, w)}}

\* where a token can start for a "log" at i, with or without each marker
TokenStarts(reading, s, i, withFor, withThe) ==
    LET afterLog == AfterWord(reading, s, {i}, W_log)
        afterFor == IF withFor THEN AfterWord(reading, s, afterLog, W_for)
                    ELSE afterLog
        afterThe == IF withThe
                    THEN AfterWord(reading, s,
                                   AfterWord(reading, s, afterFor, W_the),
                                   W_pod)
                    ELSE afterFor
    IN  {a \in afterThe : a <= Len(s) /\ s[a] \in TokenChars}

\* the markers are taken when they can be: both, "for" alone, "the pod"
\* alone, neither
MarkerChoices == << <<TRUE, TRUE>>, <<TRUE, FALSE>>, <<FALSE, TRUE>>,
                    <<FALSE, FALSE>> >>

\* the token of the match that starts at i under the first marker choice
\* that has one: None or Some(token)
RefAt(reading, s, i) ==
    LET starts == [k \in 1..4 |->
                     TokenStarts(reading, s, i, MarkerChoices[k][1],
                                 MarkerChoices[k][2])]
        usable == {k \in 1..4 : starts[k] # {}}
    IN  IF usable = {} THEN None
        ELSE LET k == CHOOSE x \in usable : \A y \in usable : x <= y
                 a == CHOOSE x \in starts[k] : \A y \in starts[k] : x <= y
                 b == CHOOSE x \in a..Len(s) :
                        /\ \A j \in a..x : s[j] \in TokenChars
                        /\ (x = Len(s) \/ s[x + 1] \notin TokenChars)
             IN  Some(SubSeq(s, a, b))

\* the token of the leftmost match: None or Some(token)
RefSearch(reading, s) ==
    LET found == [i \in 1..Len(s) |-> RefAt(reading, s, i)]
        at == {i \in 1..Len(s) : found[i] # None}
    IN  IF at = {} THEN None
        ELSE found[CHOOSE i \in at : \A j \in at : i <= j]

\* the raw result of a collaborator call of this request, once it has
\* returned or raised
Raw(f) == Val(api[f])
WasCalled(f) == api[f] # None

\* the text the log API gave, or "" when it raised
LogTextGiven ==
    IF Raw("get_pod_logs").raised THEN "" ELSE Raw("get_pod_logs").value

\* C1: a query that mentions "log" and holds a pod-name token is answered
\* with the query echoed and exactly the text get_pod_logs returned for that
\* token in namespace "default"; the provider and the three listing
\* functions are never called on that request.
C1_LogAnswerIsFetchedText ==
    (Started /\ MentionsLog(query) /\ RefSearch("run", query) # None) =>
        /\ calls["create"] = 0
        /\ calls["get_pods_info"] = 0
        /\ calls["get_deployments_info"] = 0
        /\ calls["get_nodes_info"] = 0
        /\ Finished =>
             /\ failure = None
             /\ calls["get_pod_logs"] = 1
             /\ call_args["get_pod_logs"] =
                  Some([pod_name |-> Val(RefSearch("run", query)),
                        namespace |-> "default"])
             /\ logs = Some(LogTextGiven)
             /\ response = Some([query |-> query, answer |-> Val(logs)])

C1_Witness ==
    /\ Finished
    /\ query = Q_Upper
    /\ response = Some([query |-> Q_Upper, answer |-> "line1\nline2"])

\* C2: a query that mentions "log" but holds no pod-name token is answered
\* with exactly "Pod name not found in the query.", the query echoed, and
\* no collaborator at all is called.
C2_NoTokenNoCalls ==
    (Started /\ MentionsLog(query) /\ RefSearch("run", query) = None) =>
        /\ calls = NoCalls
        /\ api = NoApi
        /\ Finished =>
             /\ failure = None
             /\ response = Some([query |-> query,
                                 answer |-> "Pod name not found in the query."])

C2_Witness ==
    /\ Finished
    /\ query = Q_ShowLogs
    /\ response # None

\* the user message the provider was called with
UserMessages ==
    LET ms == Val(call_args["create"]).messages
    IN  {ms[i].content : i \in {j \in 1..Len(ms) : ms[j].role = "user"}}

CountShown(content, key, n) ==
    Contains(content, <<"\"" \o key \o "\": ", ToString(n)>>)

ProviderText ==
    IF ~WasCalled("create") THEN None
    ELSE LET r == Raw("create")
         IN  IF ~r.raised /\ r.value.choices # <<>>
             THEN r.value.choices[1].message.content
             ELSE None

\* C3: a query that does not mention "log" calls the provider exactly once,
\* with a user message that holds the query text as given and the three
\* counts of the snapshot; when the provider gives a text, the answer is
\* that text and the query is echoed.
C3_GeneralCallsProviderOnce ==
    (Started /\ ~MentionsLog(query)) =>
        /\ calls["create"] <= 1
        /\ (pc \in Issued \cup {"Done"}) =>
             /\ calls["create"] = 1
             /\ Cardinality(UserMessages) = 1
             /\ \A content \in UserMessages :
                  /\ Contains(content, query)
                  /\ CountShown(content, "pod_count", Val(pod_count))
                  /\ CountShown(content, "deployment_count",
                                Val(deployment_count))
                  /\ CountShown(content, "node_count", Val(node_count))
        /\ (Finished /\ ProviderText # None) =>
             /\ failure = None
             /\ response = Some([query |-> query, answer |-> Val(ProviderText)])

C3_Witness ==
    /\ Finished
    /\ query = Q_HowMany
    /\ pod_count = Some(1)
    /\ waiting # {}
    /\ response = Some([query |-> Q_HowMany, answer |-> "There are 2 pods."])

\* a listing failed: the call raised, or building a record did
PodsFailed ==
    \/ Raw("get_pods_info").raised
    \/ \E i \in DOMAIN Raw("get_pods_info").value :
         Raw("get_pods_info").value[i].metadata = None
DeploymentsFailed ==
    \/ Raw("get_deployments_info").raised
    \/ \E i \in DOMAIN Raw("get_deployments_info").value :
         Raw("get_deployments_info").value[i].spec = None
NodesFailed ==
    \/ Raw("get_nodes_info").raised
    \/ \E i \in DOMAIN Raw("get_nodes_info").value :
         Raw("get_nodes_info").value[i].metadata = None

\* the names of the records, in order
Names(records) == [i \in DOMAIN records |-> records[i].name]

\* C4: the three listings fail independently.  A listing that failed gives
\* an empty sequence and count 0, one that did not gives one record per
\* item of its own API result, and the request goes on to the provider
\* whatever subset failed.
C4_ListingsFailIndependently ==
    /\ WasCalled("get_pods_info") =>
         IF PodsFailed
         THEN pod_data = Some(<<>>) /\ pod_count = Some(0)
         ELSE /\ Names(Val(pod_data)) =
                   [i \in DOMAIN Raw("get_pods_info").value |->
                      Val(Raw("get_pods_info").value[i].metadata).name]
              /\ pod_count = Some(Len(Raw("get_pods_info").value))
    /\ WasCalled("get_deployments_info") =>
         IF DeploymentsFailed
         THEN deployment_data = Some(<<>>) /\ deployment_count = Some(0)
         ELSE /\ Names(Val(deployment_data)) =
                   [i \in DOMAIN Raw("get_deployments_info").value |->
                      Raw("get_deployments_info").value[i].metadata.name]
              /\ deployment_count = Some(Len(Raw("get_deployments_info").value))
    /\ WasCalled("get_nodes_info") =>
         IF NodesFailed
         THEN node_data = Some(<<>>) /\ node_count = Some(0)
         ELSE /\ Names(Val(node_data)) =
                   [i \in DOMAIN Raw("get_nodes_info").value |->
                      Val(Raw("get_nodes_info").value[i].metadata).name]
              /\ node_count = Some(Len(Raw("get_nodes_info").value))
    /\ pc \in GeneralPath => (failure = None /\ response = None)
    /\ pc \in Issued \cup {"Done"} =>
         /\ calls["get_pods_info"] = 1
         /\ calls["get_deployments_info"] = 1
         /\ calls["get_nodes_info"] = 1
         /\ calls["create"] = 1

C4_Witness ==
    /\ pc = "Awaiting"
    /\ DeploymentsFailed /\ ~Raw("get_deployments_info").raised
    /\ deployment_data = Some(<<>>)
    /\ ~PodsFailed /\ Len(Val(pod_data)) = 2
    /\ ~NodesFailed /\ Len(Val(node_data)) = 1

\* the exception the general path ends with, given what the provider did
HandlerError ==
    LET r == Raw("create")
    IN  IF r.raised THEN Some(r.exc.msg)
        ELSE IF r.value.choices = <<>> THEN Some("list index out of range")
        ELSE IF r.value.choices[1].message.content = None
             THEN Some(ValidationText)
             ELSE None

\* C5: when the provider call, or a later step of the general path, raises,
\* the request ends as a failure with status 500 and the error's text as
\* detail; no QueryResponse is returned and the provider is not called
\* again.
C5_ProviderFailureIs500 ==
    /\ (Finished /\ WasCalled("create") /\ HandlerError # None) =>
         /\ failure = Some([status_code |-> 500, detail |-> Val(HandlerError)])
         /\ response = None
         /\ calls["create"] = 1
    /\ (WasCalled("create") /\ Raw("create").raised) => Finished

C5_Witness ==
    /\ Finished
    /\ WasCalled("create")
    /\ Raw("create").raised
    /\ failure = Some([status_code |-> 500, detail |-> "Connection error."])

\* C6: every snapshot handed to the prompt builder has each count equal to
\* the length of its sequence, whether each listing succeeded, failed at
\* the call, or failed part-way through building its records.
C6_CountsMatchLengths ==
    /\ (pc \in {"Collected", "Prompted"} \cup Issued
          \/ (Finished /\ WasCalled("get_nodes_info"))) =>
         /\ Val(pod_count) = Len(Val(pod_data))
         /\ Val(deployment_count) = Len(Val(deployment_data))
         /\ Val(node_count) = Len(Val(node_data))
    /\ pc \in {"Prompted", "Awaiting"} =>
         LET content == Val(openai_message)[2].content
         IN  /\ CountShown(content, "pod_count", Len(Val(pod_data)))
             /\ CountShown(content, "deployment_count",
                           Len(Val(deployment_data)))
             /\ CountShown(content, "node_count", Len(Val(node_data)))

C6_Witness ==
    /\ pc = "Awaiting"
    /\ ~Raw("get_nodes_info").raised
    /\ Len(Raw("get_nodes_info").value) = 2
    /\ Raw("get_nodes_info").value[1].metadata # None
    /\ Raw("get_nodes_info").value[2].metadata = None
    /\ node_count = Some(0) /\ node_data = Some(<<>>)
    /\ Raw("get_pods_info").raised
    /\ Len(Val(deployment_data)) = 2

\* the transitions of the per-request state machine; a request that finds
\* no token, or that fails, goes straight to Done.  PodsCollected and
\* DeploymentsCollected are the steps of collecting, Awaiting is Prompted
\* with the provider call issued.
Transitions ==
    { <<"Received", "ClassifiedLog">>, <<"Received", "ClassifiedGeneral">>,
      <<"ClassifiedLog", "Extracted">>, <<"Extracted", "Fetched">>,
      <<"Fetched", "Done">>, <<"Extracted", "Done">>,
      <<"ClassifiedGeneral", "PodsCollected">>,
      <<"PodsCollected", "DeploymentsCollected">>,
      <<"DeploymentsCollected", "Collected">>,
      <<"Collected", "Prompted">>, <<"Prompted", "Awaiting">>,
      <<"Awaiting", "Completed">>, <<"Awaiting", "Done">>,
      <<"Completed", "Done">> }

Outcomes == (IF response # None THEN 1 ELSE 0) + (IF failure # None THEN 1 ELSE 0)

\* the positions the request has been through form a walk of the state
\* machine that starts at Received, ends at the current position and
\* enters no position twice
WalksMachine(steps) ==
    /\ Started =>
         /\ path # <<>> /\ path[1] = "Received" /\ path[Len(path)] = pc
    /\ \A i \in 1..(Len(path) - 1) : <<path[i], path[i + 1]>> \in steps
    /\ \A i, j \in DOMAIN path : i # j => path[i] # path[j]

\* no call is made twice and the provider is called after the listings
CallsOnce ==
    /\ \A f \in Functions : calls[f] <= 1
    /\ calls["create"] = 1 =>
         /\ calls["get_pods_info"] = 1
         /\ calls["get_deployments_info"] = 1
         /\ calls["get_nodes_info"] = 1
         /\ pod_data # None /\ deployment_data # None /\ node_data # None

\* every step of a request adds the position it enters to the request's
\* path: a step of the running request, or the resumption of a suspended
\* one
PathGrows ==
    \/ pc' = "Received" /\ path' = <<"Received">>
    \/ rid' = rid /\ pc' = pc /\ path' = path
    \/ rid' = rid /\ pc' # pc /\ path' = Append(path, pc')
    \/ \E f \in waiting : rid' = f.rid /\ path' = Append(f.path, pc')

\* C7, as stated: a request moves only forward through Received,
\* Classified, then Extracted, Fetched or Collected, Prompted, Completed,
\* to Done: no position is entered twice, no collaborator is called twice,
\* the provider is called only after the three listings, and every request
\* reaches a terminal state, where it has exactly one outcome, a
\* QueryResponse or a failure, and before which it has none.
C7_RequestStateMachine ==
    /\ [][PathGrows]_vars
    /\ [](WalksMachine(Transitions) /\ CallsOnce)
    /\ [](Started => Outcomes = (IF pc \in Ended THEN 1 ELSE 0))
    /\ \A r \in Slots :
         (rid = r /\ pc = "Received") ~> (rid = r /\ pc \in Ended)

\* C7, amended: the same, with the request that is cancelled while its
\* provider call is pending set apart: a request that ends in Done has
\* exactly one outcome, a request cancelled at the await ends with
\* neither, and every request ends in one of the two ways.
C7_StateMachineWithCancellation ==
    /\ [][PathGrows]_vars
    /\ [](WalksMachine(Transitions \cup {<<"Awaiting", "Cancelled">>})
            /\ CallsOnce)
    /\ [](Started => Outcomes = (IF pc = "Done" THEN 1 ELSE 0))
    /\ [](\A f \in waiting : f.pc = "Awaiting" /\ f.rid # rid)
    /\ \A r \in Slots :
         (rid = r /\ pc = "Received") ~> (rid = r /\ pc \in Ended)

C7_Witness ==
    /\ path = <<"Received", "ClassifiedGeneral", "PodsCollected",
                "DeploymentsCollected", "Collected", "Prompted",
                "Awaiting", "Completed", "Done">>
    /\ failure # None
    /\ response = None
    /\ \E f \in waiting : f.rid = 1
    /\ rid = 2

\* C8: when the log fetch fails, get_pod_logs returns the empty string and
\* the request ends with a QueryResponse whose answer is the empty string,
\* not with a failure.
C8_LogFailureGivesEmptyAnswer ==
    (WasCalled("get_pod_logs") /\ Raw("get_pod_logs").raised) =>
        /\ logs = Some("")
        /\ failure = None
        /\ Finished => response = Some([query |-> query, answer |-> ""])

C8_Witness ==
    /\ Finished
    /\ WasCalled("get_pod_logs")
    /\ Raw("get_pod_logs").raised
    /\ response = Some([query |-> query, answer |-> ""])

\* C9, as stated: the token handed to get_pod_logs is the one the pattern
\* log (for )?(the pod )?<token>, with single spaces, yields, and
\* extraction fails exactly when that pattern has no match.
C9_SingleSpacePattern ==
    pc \in {"Extracted", "Fetched"} =>
        LET ref == RefSearch("space", query)
        IN  /\ match = ref
            /\ pc = "Fetched" =>
                 Val(call_args["get_pod_logs"]).pod_name = Val(ref)

\* C9, amended: the token handed to get_pod_logs is the one the pattern
\* yields when each blank of the pattern stands for a run of one or more
\* whitespace characters, and extraction fails exactly when that pattern
\* has no match.
C9_WhitespaceRunPattern ==
    pc \in {"Extracted", "Fetched", "Done"} =>
        LET ref == RefSearch("run", query)
        IN  /\ match = ref
            /\ pc = "Fetched" =>
                 /\ ref # None
                 /\ Val(call_args["get_pod_logs"]).pod_name = Val(ref)
            /\ (pc = "Done" /\ response # None) => ref = None

C9_Witness ==
    /\ pc = "Fetched"
    /\ query = <<"L", "O", "G", LF>> \o W_for \o <<SP>> \o W_the
                 \o <<SP>> \o W_pod \o <<SP, "w", "-", "7">>
    /\ Val(call_args["get_pod_logs"]).pod_name = <<"w", "-", "7">>

\* an ERROR record whose text starts with `prefix` is in the log
ErrorLogged(prefix) ==
    \E k \in DOMAIN log : log[k].level = "ERROR" /\ log[k].msg[1] = prefix

\* C10: every collaborator failure that is degraded to empty data leaves an
\* ERROR record in the logging sink.
C10_RecoveredFailuresAreLogged ==
    /\ (WasCalled("get_pods_info") /\ PodsFailed) =>
         ErrorLogged("Error fetching pod information: ")
    /\ (WasCalled("get_deployments_info") /\ DeploymentsFailed) =>
         ErrorLogged("Error fetching deployment information: ")
    /\ (WasCalled("get_nodes_info") /\ NodesFailed) =>
         ErrorLogged("Error fetching nodes information: ")
    /\ (WasCalled("get_pod_logs") /\ Raw("get_pod_logs").raised) =>
         ErrorLogged("Error fetching logs for pod ")

====
